---- MODULE Spec2Model ----
(***************************************************************************)
(* Model of src/index.js: the PostCSS plugin unwrap-nested-selectors.      *)
(*                                                                         *)
(* Selector text is a sequence of one-character strings, so that split,    *)
(* trim, startsWith, slice and join are computed character by character.   *)
(* The rule tree is an arena: node n has nodeType[n], selector[n],          *)
(* parent[n] (0 when the node has no parent) and the ordered child list    *)
(* nodes[n].  Node 1 is the Root.                                          *)
(***************************************************************************)
EXTENDS Integers, Sequences, FiniteSets, TLC

VARIABLES nodeType, selector, parent, nodes, origin, indexes, pc,
          selectorsForRule, input

vars == <<nodeType, selector, parent, nodes, origin, indexes, pc,
          selectorsForRule, input>>

\* Bounds of the model.
MaxInputNodes == 5
MaxLen == 3

Root == 1
NoNode == 0

-----------------------------------------------------------------------------
(* Strings *)

Amp == "&"
Space == " "
Comma == ","

\* childSelector.startsWith('&')
startsWith(s, c) == Len(s) > 0 /\ s[1] = c

\* childSelector.slice(1)
slice(s) == SubSeq(s, 2, Len(s))

\* Mutant of combineSelectors: the separator is inserted in both branches.
combineSelectorsAlwaysSpace(parentSelector, childSelector) ==
  parentSelector \o <<Space>>
    \o (IF startsWith(childSelector, Amp) THEN slice(childSelector)
                                          ELSE childSelector)

combineSelectors(parentSelector, childSelector) ==
  IF startsWith(childSelector, Amp)
    THEN parentSelector \o slice(childSelector)
    ELSE parentSelector \o <<Space>> \o childSelector

\* String.prototype.split(','): the segments between the commas, empty
\* segments included; a string without a comma gives one segment.
RECURSIVE split(_)
split(s) ==
  IF \E i \in 1..Len(s) : s[i] = Comma
    THEN LET i == CHOOSE k \in 1..Len(s) :
                    s[k] = Comma /\ \A h \in 1..(k - 1) : s[h] # Comma
         IN  <<SubSeq(s, 1, i - 1)>> \o split(SubSeq(s, i + 1, Len(s)))
    ELSE <<s>>

\* String.prototype.trim(): white space removed at both ends.
RECURSIVE trim(_)
trim(s) ==
  IF Len(s) = 0 THEN s
  ELSE IF s[1] = Space THEN trim(SubSeq(s, 2, Len(s)))
  ELSE IF s[Len(s)] = Space THEN trim(SubSeq(s, 1, Len(s) - 1))
  ELSE s

\* Array.prototype.join(','): [] gives the empty string.
RECURSIVE join(_)
join(list) ==
  IF Len(list) = 0 THEN <<>>
  ELSE IF Len(list) = 1 THEN list[1]
  ELSE list[1] \o <<Comma>> \o join(Tail(list))

\* rule.selector.split(',').map((selector) => selector.trim())
ownSelectors(text) == [i \in 1..Len(split(text)) |-> trim(split(text)[i])]

-----------------------------------------------------------------------------
(* buildFlattenedSelectors *)

\* selectors.forEach((childSelector) => combinedSelectors.push(...))
RECURSIVE forEachChildSelector(_, _, _, _)
forEachChildSelector(combinedSelectors, parentSelector, selectors, j) ==
  IF j > Len(selectors) THEN combinedSelectors
  ELSE forEachChildSelector(
         Append(combinedSelectors, combineSelectors(parentSelector, selectors[j])),
         parentSelector, selectors, j + 1)

\* parentSelectors.forEach((parentSelector) => selectors.forEach(...))
RECURSIVE forEachParentSelector(_, _, _, _)
forEachParentSelector(combinedSelectors, parentSelectors, selectors, i) ==
  IF i > Len(parentSelectors) THEN combinedSelectors
  ELSE forEachParentSelector(
         forEachChildSelector(combinedSelectors, parentSelectors[i], selectors, 1),
         parentSelectors, selectors, i + 1)

\* Mutant of crossProduct: the loops are exchanged (child-major order).
RECURSIVE childMajor(_, _, _, _)
childMajor(acc, parentSelectors, selectors, j) ==
  IF j > Len(selectors) THEN acc
  ELSE childMajor(
         acc \o [i \in 1..Len(parentSelectors) |->
                   combineSelectors(parentSelectors[i], selectors[j])],
         parentSelectors, selectors, j + 1)

crossProductChildMajor(parentSelectors, selectors) ==
  childMajor(<<>>, parentSelectors, selectors, 1)

crossProduct(parentSelectors, selectors) ==
  forEachParentSelector(<<>>, parentSelectors, selectors, 1)

\* buildFlattenedSelectors(rule) on the tree given by sel and par.
RECURSIVE buildFlattenedSelectors(_, _, _)
buildFlattenedSelectors(sel, par, rule) ==
  IF rule = NoNode \/ Len(sel[rule]) = 0 THEN <<>>
  ELSE LET selectors == ownSelectors(sel[rule])
           parentSelectors == buildFlattenedSelectors(sel, par, par[rule])
       IN  IF Len(parentSelectors) = 0 THEN selectors
           ELSE crossProduct(parentSelectors, selectors)

-----------------------------------------------------------------------------
(* The rule tree and the node operations of the host library that the      *)
(* plugin calls: remove, clone, append.                                    *)

IsContainer(ty) == ty \in {"root", "rule", "atrule"}

Tree == [nodeType |-> nodeType, selector |-> selector, parent |-> parent,
         nodes |-> nodes, origin |-> origin, indexes |-> indexes]

\* Position of child in the list kids (Container.index).
indexOf(kids, child) == CHOOSE k \in 1..Len(kids) : kids[k] = child

without(kids, k) == SubSeq(kids, 1, k - 1) \o SubSeq(kids, k + 1, Len(kids))

\* Container.removeChild: the child is spliced out of its container and
\* every live iterator of that container at or after it steps back by one.
removeChild(T, container, child) ==
  LET k == indexOf(T.nodes[container], child)
  IN  [T EXCEPT !.nodes[container] = without(@, k),
                !.parent[child] = NoNode,
                !.indexes = [f \in 1..Len(@) |->
                               IF @[f].container = container /\ @[f].index >= k
                                 THEN [@[f] EXCEPT !.index = @ - 1]
                                 ELSE @[f]]]

\* Node.remove(): nothing happens to a node that has no parent.
remove(T, node) ==
  IF T.parent[node] # NoNode THEN removeChild(T, T.parent[node], node) ELSE T

\* A new node at the end of the arena.
allocate(T, ty, sel, par, from) ==
  [T EXCEPT !.nodeType = Append(@, ty),
            !.selector = Append(@, sel),
            !.parent = Append(@, par),
            !.nodes = Append(@, <<>>),
            !.origin = Append(@, from)]

\* Node.clone(): a deep copy; every copied child has the copy as parent.
RECURSIVE cloneNode(_, _, _)
RECURSIVE cloneChildren(_, _, _, _)
cloneChildren(T, node, copy, k) ==
  IF k > Len(T.nodes[node]) THEN T
  ELSE LET child == Len(T.nodeType) + 1
           T1 == cloneNode(T, T.nodes[node][k], copy)
       IN  cloneChildren([T1 EXCEPT !.nodes[copy] = Append(@, child)],
                         node, copy, k + 1)

cloneNode(T, node, par) ==
  LET copy == Len(T.nodeType) + 1
  IN  cloneChildren(
        allocate(T, T.nodeType[node], T.selector[node], par, T.origin[node]),
        node, copy, 1)

\* rule.clone({ selector }): the copy has no parent, and the given selector.
clone(T, rule, sel) ==
  LET copy == Len(T.nodeType) + 1
  IN  [cloneNode(T, rule, NoNode) EXCEPT !.selector[copy] = sel]

\* root.append(node): the node becomes the last child of root.
append(T, container, node) ==
  LET T1 == remove(T, node)
  IN  [T1 EXCEPT !.nodes[container] = Append(@, node),
                 !.parent[node] = container]

hasDecl(T, rule) ==
  \E k \in 1..Len(T.nodes[rule]) : T.nodeType[T.nodes[rule][k]] = "decl"

-----------------------------------------------------------------------------
(* The body of the walkRules callback.                                     *)

\* Mutant of shouldUnwrap: the test of the parent's type is dropped.
shouldUnwrapAnyParent(T, rule) == hasDecl(T, rule)

\* parentRule.type !== 'root' && rule.nodes.some((node) => node.type === 'decl')
shouldUnwrap(T, rule) ==
  T.nodeType[T.parent[rule]] # "root" /\ hasDecl(T, rule)

\* Mutant of unwrap: the original rule is not removed.
unwrapKeepOriginal(T, rule) ==
  LET flat == buildFlattenedSelectors(T.selector, T.parent, rule)
      copy == Len(T.nodeType) + 1
  IN  append(clone(T, rule, join(flat)), Root, copy)

\* Lines 78-82: the rule is copied to the root under its flattened selector
\* and the original is removed.
unwrap(T, rule) ==
  LET flat == buildFlattenedSelectors(T.selector, T.parent, rule)
      copy == Len(T.nodeType) + 1
  IN  remove(append(clone(T, rule, join(flat)), Root, copy), rule)

\* Mutant of removeEmptyParents: only the immediate parent is examined.
removeOneEmptyParent(T, currentParent) ==
  IF /\ currentParent # NoNode
     /\ T.nodeType[currentParent] = "rule"
     /\ Len(T.nodes[currentParent]) = 0
    THEN remove(T, currentParent)
    ELSE T

\* Mutant of removeEmptyParents: the loop does not stop at a parent that
\* still has children.
RECURSIVE removeParentsUnchecked(_, _)
removeParentsUnchecked(T, currentParent) ==
  IF currentParent # NoNode /\ T.nodeType[currentParent] = "rule"
    THEN removeParentsUnchecked(remove(T, currentParent), T.parent[currentParent])
    ELSE T

\* Lines 86-95: empty parent rules are removed, upwards.
RECURSIVE removeEmptyParents(_, _)
removeEmptyParents(T, currentParent) ==
  IF currentParent # NoNode /\ T.nodeType[currentParent] = "rule"
    THEN IF Len(T.nodes[currentParent]) > 0
           THEN T
           ELSE removeEmptyParents(remove(T, currentParent),
                                   T.parent[currentParent])
    ELSE T

\* The callback of walkRules, lines 73-96.
callback(T, rule) ==
  LET parentRule == T.parent[rule]
      T1 == IF shouldUnwrap(T, rule) THEN unwrap(T, rule) ELSE T
  IN  removeEmptyParents(T1, parentRule)

-----------------------------------------------------------------------------
(* The walk: Container.walk is Container.each with a descent into every    *)
(* child that is a container, after the callback has run on it.  indexes   *)
(* is the stack of the live iterators, innermost last.                     *)

top == indexes[Len(indexes)]

\* The iterator on top has a child left.
hasNext == pc = "walk" /\ top.index <= Len(nodes[top.container])

current == nodes[top.container][top.index]

\* The walk descends into child: a new iterator on child.
descend(T, child) ==
  [T EXCEPT !.indexes = Append(@, [container |-> child, index |-> 1])]

\* The iterator on top moves to the next child.
advance(stack) ==
  [stack EXCEPT ![Len(stack)].index = @ + 1]

install(T) ==
  /\ nodeType' = T.nodeType
  /\ selector' = T.selector
  /\ parent' = T.parent
  /\ nodes' = T.nodes
  /\ origin' = T.origin
  /\ indexes' = T.indexes

\* A declaration: walkRules filters it out and it has no children to walk.
VisitDecl ==
  /\ hasNext
  /\ nodeType[current] = "decl"
  /\ indexes' = advance(indexes)
  /\ UNCHANGED <<nodeType, selector, parent, nodes, origin, pc,
                 selectorsForRule, input>>

\* An at-rule: walkRules filters it out, the walk descends into it.
VisitAtRule ==
  /\ hasNext
  /\ nodeType[current] = "atrule"
  /\ indexes' = Append(indexes, [container |-> current, index |-> 1])
  /\ UNCHANGED <<nodeType, selector, parent, nodes, origin, pc,
                 selectorsForRule, input>>

\* A rule that is unwrapped: the callback runs, the walk descends into the
\* (removed) rule.
VisitRuleUnwrap ==
  /\ hasNext
  /\ nodeType[current] = "rule"
  /\ shouldUnwrap(Tree, current)
  /\ install(descend(callback(Tree, current), current))
  /\ selectorsForRule' = buildFlattenedSelectors(selector, parent, current)
  /\ UNCHANGED <<pc, input>>

\* A rule that is not unwrapped: the callback still runs its pruning loop.
VisitRuleSkip ==
  /\ hasNext
  /\ nodeType[current] = "rule"
  /\ ~shouldUnwrap(Tree, current)
  /\ install(descend(callback(Tree, current), current))
  /\ UNCHANGED <<pc, selectorsForRule, input>>

\* The iterator on top is exhausted: each() returns to the enclosing
\* iterator, which moves on.
LeaveContainer ==
  /\ pc = "walk"
  /\ ~hasNext
  /\ Len(indexes) > 1
  /\ indexes' = advance(SubSeq(indexes, 1, Len(indexes) - 1))
  /\ UNCHANGED <<nodeType, selector, parent, nodes, origin, pc,
                 selectorsForRule, input>>

\* The iterator of the root is exhausted: walkRules and OnceExit return.
OnceExitReturns ==
  /\ pc = "walk"
  /\ ~hasNext
  /\ Len(indexes) = 1
  /\ indexes' = <<>>
  /\ pc' = "done"
  /\ UNCHANGED <<nodeType, selector, parent, nodes, origin,
                 selectorsForRule, input>>

-----------------------------------------------------------------------------
(* Input trees: every tree of at most MaxInputNodes nodes below the root,  *)
(* numbered in document order.                                             *)

SelectorTexts == { <<"a", ",", " ", "b">>, <<"&", "c">> }

Kinds == {<<"decl", <<>>>>, <<"atrule", <<>>>>}
           \cup {<<"rule", s>> : s \in SelectorTexts}

RootOnly == [nodeType |-> <<"root">>, selector |-> << <<>> >>,
             parent |-> <<NoNode>>, nodes |-> << <<>> >>]

RECURSIVE ancestorsOrSelf(_, _)
ancestorsOrSelf(par, n) ==
  IF n = NoNode THEN {} ELSE {n} \cup ancestorsOrSelf(par, par[n])

\* The containers still open when the parser has read the last node of T.
openContainers(T) ==
  {p \in ancestorsOrSelf(T.parent, Len(T.nodeType)) : IsContainer(T.nodeType[p])}

addNode(T, p, kind) ==
  [nodeType |-> Append(T.nodeType, kind[1]),
   selector |-> Append(T.selector, kind[2]),
   parent |-> Append(T.parent, p),
   nodes |-> [Append(T.nodes, <<>>) EXCEPT ![p] = Append(@, Len(T.nodeType) + 1)]]

\* The walk starts on the tree T.
startOn(T) ==
  /\ nodeType = T.nodeType
  /\ selector = T.selector
  /\ parent = T.parent
  /\ nodes = T.nodes
  /\ origin = [n \in 1..Len(T.nodeType) |-> n]
  /\ indexes = <<[container |-> Root, index |-> 1]>>
  /\ pc = "walk"
  /\ selectorsForRule = <<>>
  /\ input = T

\* The trees of exactly k nodes below the root.
RECURSIVE treesOfSize(_)
treesOfSize(k) ==
  IF k = 0 THEN {RootOnly}
  ELSE LET smaller == treesOfSize(k - 1)
           places == {tp \in smaller \X (1..k) : tp[2] \in openContainers(tp[1])}
       IN  {addNode(x[1][1], x[1][2], x[2]) : x \in places \X Kinds}

Init == \E k \in 0..MaxInputNodes : \E T \in treesOfSize(k) : startOn(T)

Next ==
  \/ VisitDecl
  \/ VisitAtRule
  \/ VisitRuleUnwrap
  \/ VisitRuleSkip
  \/ LeaveContainer
  \/ OnceExitReturns

Spec == Init /\ [][Next]_vars

-----------------------------------------------------------------------------
(* The two pure functions on their own: a chain of three nested rules      *)
(* Root > 2 > 3 > 4 whose selector texts are drawn from bounded sets;      *)
(* combineSelectors is applied to the texts of rules 3 and 4, and          *)
(* buildFlattenedSelectors to rule 4.                                      *)

Alphabet == {"a", Amp, Space, Comma}

Strings == UNION {[1..k -> Alphabet] : k \in 0..MaxLen}

Chain(g, p, c) ==
  [nodeType |-> <<"root", "rule", "rule", "rule">>,
   selector |-> << <<>>, g, p, c >>,
   parent |-> <<NoNode, 1, 2, 3>>,
   nodes |-> << <<2>>, <<3>>, <<4>>, <<>> >>]

PureInit ==
  \E g \in SelectorTexts \cup {<<>>}, p \in Strings, c \in Strings :
    /\ nodeType = Chain(g, p, c).nodeType
    /\ selector = Chain(g, p, c).selector
    /\ parent = Chain(g, p, c).parent
    /\ nodes = Chain(g, p, c).nodes
    /\ origin = <<1, 2, 3, 4>>
    /\ indexes = <<>>
    /\ pc = "call"
    /\ selectorsForRule = <<>>
    /\ input = Chain(g, p, c)

CallCombineSelectors ==
  /\ pc = "call"
  /\ pc' = "combined"
  /\ selectorsForRule' = <<combineSelectors(selector[3], selector[4])>>
  /\ UNCHANGED <<nodeType, selector, parent, nodes, origin, indexes, input>>

CallBuildFlattenedSelectors ==
  /\ pc = "call"
  /\ pc' = "built"
  /\ selectorsForRule' = buildFlattenedSelectors(selector, parent, 4)
  /\ UNCHANGED <<nodeType, selector, parent, nodes, origin, indexes, input>>

PureNext == CallCombineSelectors \/ CallBuildFlattenedSelectors

PureSpec == PureInit /\ [][PureNext]_vars

-----------------------------------------------------------------------------
(* Claims about the pure functions, under PureSpec.                        *)

\* C4: on non-empty strings, combineSelectors gives the parent selector
\* directly followed by the child selector minus its one leading '&' when
\* the child selector starts with '&', and otherwise the parent selector,
\* one space, and the child selector unchanged.
C4_Combine ==
  (pc = "combined" /\ Len(selector[3]) > 0 /\ Len(selector[4]) > 0) =>
    LET p == selector[3]
        c == selector[4]
        r == selectorsForRule[1]
    IN  IF c[1] = "&"
          THEN /\ Len(r) = Len(p) + Len(c) - 1
               /\ \A i \in 1..Len(p) : r[i] = p[i]
               /\ \A i \in 2..Len(c) : r[Len(p) + i - 1] = c[i]
          ELSE /\ Len(r) = Len(p) + 1 + Len(c)
               /\ \A i \in 1..Len(p) : r[i] = p[i]
               /\ r[Len(p) + 1] = " "
               /\ \A i \in 1..Len(c) : r[Len(p) + 1 + i] = c[i]

\* combine("a", "&a") = "aa"
C4_Witness ==
  /\ pc = "combined"
  /\ selector[3] = <<"a">>
  /\ selector[4] = <<"&", "a">>
  /\ selectorsForRule = << <<"a", "a">> >>

\* C3: when the parent's flattened set P is not empty and the rule has
\* selector text with own list S, the result has Len(P) * Len(S) entries and
\* the entry at (i-1) * Len(S) + j is combine(P[i], S[j]); along a chain of
\* rules that all have selector text the length is the product of the
\* per-level selector counts.
C3_CrossProduct ==
  (pc = "built" /\ Len(selector[4]) > 0) =>
    LET P == buildFlattenedSelectors(selector, parent, 3)
        S == ownSelectors(selector[4])
        m == Len(P)
        n == Len(S)
    IN  /\ m > 0 =>
             /\ Len(selectorsForRule) = m * n
             /\ \A i \in 1..m, j \in 1..n :
                  selectorsForRule[(i - 1) * n + j] = combineSelectors(P[i], S[j])
        /\ (Len(selector[2]) > 0 /\ Len(selector[3]) > 0) =>
             Len(selectorsForRule) =
               Len(ownSelectors(selector[2])) * Len(ownSelectors(selector[3])) * n

\* "a, b" > "&" > "&,a" gives a, a a, b, b a.
C3_Witness ==
  /\ pc = "built"
  /\ selector[2] = <<"a", ",", " ", "b">>
  /\ selector[3] = <<"&">>
  /\ selector[4] = <<"&", ",", "a">>
  /\ selectorsForRule = << <<"a">>, <<"a", " ", "a">>, <<"b">>, <<"b", " ", "a">> >>

-----------------------------------------------------------------------------
(* Claims about the transform, under Spec.                                 *)

Allocated == 1..Len(nodeType)
InputNodes == 1..Len(input.nodeType)

\* n is reachable from Root in the tree whose parent links are par.
InTree(par, n) == Root \in ancestorsOrSelf(par, n)

\* The nearest enclosing Rule of n, NoNode when there is none.
RECURSIVE ruleAncestor(_, _)
ruleAncestor(T, n) ==
  IF T.parent[n] = NoNode THEN NoNode
  ELSE IF T.nodeType[T.parent[n]] = "rule" THEN T.parent[n]
  ELSE ruleAncestor(T, T.parent[n])

\* r is a rule of the input with a declaration child.
InputDeclRule(r) == input.nodeType[r] = "rule" /\ hasDecl(input, r)

\* C1: when the transform has finished, every Rule of the tree that has a
\* Declaration child is a direct child of Root.
C1_NoNestedDeclRule ==
  pc = "done" =>
    \A n \in Allocated :
      (InTree(parent, n) /\ nodeType[n] = "rule" /\ hasDecl(Tree, n))
        => parent[n] = Root

\* The transform has finished on an input where a promoted rule carried a
\* nested rule with declarations.
C1_Witness ==
  /\ pc = "done"
  /\ \E r \in InputNodes, c \in InputNodes :
       /\ InputDeclRule(r) /\ input.parent[r] # Root
       /\ InputDeclRule(c) /\ input.parent[c] = r
       /\ \E n \in Allocated : origin[n] = c /\ parent[n] = Root

\* The selectors of r combined with those of every Rule ancestor of r in T,
\* outermost first.
RECURSIVE wholeChainSelectors(_, _)
wholeChainSelectors(T, r) ==
  IF ruleAncestor(T, r) = NoNode THEN ownSelectors(T.selector[r])
  ELSE crossProduct(wholeChainSelectors(T, ruleAncestor(T, r)),
                    ownSelectors(T.selector[r]))

\* C2: every root-level rule produced for a nested input rule R with
\* declarations has the selector that combines R's whole chain of input Rule
\* ancestors.
C2_WholeAncestorChain ==
  pc = "done" =>
    \A r \in InputNodes :
      (InputDeclRule(r) /\ input.parent[r] # Root) =>
        \A n \in Allocated :
          (origin[n] = r /\ parent[n] = Root)
            => selector[n] = join(wholeChainSelectors(input, r))

\* C5, final tree: no Rule that had a child in the input is in the tree
\* without children.
C5_NoEmptyShell ==
  pc = "done" =>
    \A n \in Allocated :
      (InTree(parent, n) /\ nodeType[n] = "rule" /\ nodes[n] = <<>>)
        => input.nodes[origin[n]] = <<>>

\* C5, every step: a node that loses its parent is the visited rule or a
\* childless Rule above it, and no Rule above the visited rule is left
\* childless and attached.
C5_PruneStep ==
  hasNext =>
    /\ \A n \in Allocated :
         (parent[n] # NoNode /\ parent'[n] = NoNode) =>
           \/ n = current
           \/ /\ nodeType[n] = "rule"
              /\ nodes'[n] = <<>>
              /\ n \in ancestorsOrSelf(parent, current)
    /\ \A n \in ancestorsOrSelf(parent, current) \ {current} :
         (nodeType[n] = "rule" /\ nodes'[n] = <<>>) => parent'[n] = NoNode

\* C5: empty-ancestor pruning.
C5_Pruning == []C5_NoEmptyShell /\ [][C5_PruneStep]_vars

\* A root-level rule and the grouping rule inside it were both pruned.
C5_Witness ==
  /\ pc = "done"
  /\ \E a \in InputNodes, b \in InputNodes :
       /\ input.nodeType[a] = "rule" /\ input.parent[a] = Root
       /\ input.nodeType[b] = "rule" /\ input.parent[b] = a
       /\ ~hasDecl(input, b) /\ input.nodes[b] # <<>>
       /\ parent[a] = NoNode /\ nodes[a] = <<>>
       /\ parent[b] = NoNode /\ nodes[b] = <<>>

\* No rule with declarations lies inside another rule.
Flat(T) ==
  \A n \in 1..Len(T.nodeType) :
    (T.nodeType[n] = "rule" /\ hasDecl(T, n)) => ruleAncestor(T, n) = NoNode

TreeUnchanged ==
  /\ nodeType = input.nodeType
  /\ selector = input.selector
  /\ parent = input.parent
  /\ nodes = input.nodes

\* C6: the transform changes nothing in a tree in which no rule with
\* declarations is nested inside another rule.
C6_FlatUnchanged == (pc = "done" /\ Flat(input)) => TreeUnchanged

\* C7, every step: visiting a rule whose parent is Root, or that has no
\* Declaration child, changes nothing in the tree.
C7_SkipStep ==
  (/\ hasNext
   /\ nodeType[current] = "rule"
   /\ (nodeType[parent[current]] = "root" \/ ~hasDecl(Tree, current)))
    => UNCHANGED <<nodeType, selector, parent, nodes>>

IsInputNode(n) == n \in InputNodes
StillAtRoot(n) == parent[n] = Root

\* C7, final tree: a root-level input rule that contains only declarations
\* is still a child of Root with the same selector text and children, and the
\* input's root-level nodes that remain are in their input order.
C7_RootRulesKept ==
  pc = "done" =>
    /\ \A r \in InputNodes :
         (/\ input.nodeType[r] = "rule"
          /\ input.parent[r] = Root
          /\ \A k \in 1..Len(input.nodes[r]) :
               input.nodeType[input.nodes[r][k]] = "decl")
           => /\ parent[r] = Root
              /\ nodeType[r] = "rule"
              /\ selector[r] = input.selector[r]
              /\ nodes[r] = input.nodes[r]
              /\ \A k \in 1..Len(nodes[r]) :
                   nodeType[nodes[r][k]] = "decl" /\ parent[nodes[r][k]] = r
    /\ SelectSeq(nodes[Root], IsInputNode)
         = SelectSeq(input.nodes[Root], StillAtRoot)

\* C7: skipped rules are untouched.
C7_Skipped == []C7_RootRulesKept /\ [][C7_SkipStep]_vars

\* A root-level rule "a, b" with only declarations is kept while another
\* rule was promoted.
C7_Witness ==
  /\ pc = "done"
  /\ Len(nodeType) > Len(input.nodeType)
  /\ \E r \in InputNodes :
       /\ input.nodeType[r] = "rule" /\ input.parent[r] = Root
       /\ input.selector[r] = <<"a", ",", " ", "b">>
       /\ input.nodes[r] # <<>>
       /\ \A k \in 1..Len(input.nodes[r]) :
            input.nodeType[input.nodes[r][k]] = "decl"
       /\ parent[r] = Root

\* C8: the visit of a rule that is no longer reachable from Root is a no-op.
C8_RemovedVisitNoOp ==
  [][(hasNext /\ nodeType[current] = "rule" /\ ~InTree(parent, current))
       => UNCHANGED <<nodeType, selector, parent, nodes>>]_vars

\* An upper bound on the steps the walk spends on the subtree of n: one to
\* visit a declaration, two to enter and leave a container, the steps of the
\* children, and for a rule that is unwrapped the steps of its copy at root.
cost(ty) == IF ty = "decl" THEN 1 ELSE 2

RECURSIVE stepsFor(_, _)
RECURSIVE stepsForChildren(_, _)
stepsForChildren(kids, k) ==
  IF k > Len(kids) THEN 0
  ELSE stepsFor(kids[k], TRUE) + stepsForChildren(kids, k + 1)

stepsFor(n, nested) ==
  LET own == cost(nodeType[n]) + stepsForChildren(nodes[n], 1)
  IN  IF nested /\ nodeType[n] = "rule" /\ hasDecl(Tree, n)
        THEN own + own
        ELSE own

\* The steps left for the iterator at depth f of the stack: one to leave its
\* container, and the steps of the children it has not reached yet.
RECURSIVE stepsLeftFrom(_, _)
stepsLeftFrom(f, k) ==
  IF k > Len(nodes[indexes[f].container]) THEN 0
  ELSE stepsFor(nodes[indexes[f].container][k], indexes[f].container # Root)
         + stepsLeftFrom(f, k + 1)

RECURSIVE stepsLeft(_)
stepsLeft(f) ==
  IF f > Len(indexes) THEN 0
  ELSE 1 + stepsLeftFrom(f, IF f = Len(indexes) THEN indexes[f].index
                                               ELSE indexes[f].index + 1)
         + stepsLeft(f + 1)

\* The guard of one of the actions of Next holds.
CanStep ==
  /\ pc = "walk"
  /\ Len(indexes) >= 1
  /\ hasNext => nodeType[current] \in {"decl", "atrule", "rule"}

\* C9: until the transform has finished a step can be taken, and every step
\* strictly decreases the number of steps left, which is a natural number:
\* the transform reaches completion.
C9_Terminates ==
  /\ [](pc = "done" \/ CanStep)
  /\ [](stepsLeft(1) >= 0 /\ (pc = "done" => stepsLeft(1) = 0))
  /\ [][stepsLeft(1)' < stepsLeft(1)]_vars

\* The transform has finished after appending at least three rules to Root
\* during the walk.
C9_Witness ==
  /\ pc = "done"
  /\ Cardinality({n \in Allocated : n \notin InputNodes /\ parent[n] = Root}) >= 3

\* C10: each Declaration of the input occurs exactly once in the final tree.
C10_DeclConservation ==
  pc = "done" =>
    \A d \in InputNodes :
      input.nodeType[d] = "decl" =>
        Cardinality({n \in Allocated : InTree(parent, n) /\ origin[n] = d}) = 1

====
